---- MODULE Spec2Model ----
(***************************************************************************)
(* Model of the QLA test data server (src/test-dataserver.py): the task    *)
(* pool and registry served by do_get_task / do_end_task on one worker     *)
(* thread per connection, and the multipart upload parser deal_post_data.  *)
(***************************************************************************)
EXTENDS Integers, Sequences, FiniteSets, TLC

\* ------------------------------------------------------------------ bounds
\* Requests accepted over one run of the server.
MaxRequests == 3
\* Last second the wall clock reaches.
MaxClock == 1
\* Longest uploaded file content, in bytes.
MaxContent == 2
\* Largest number of bytes by which Content-Length falls short of the body.
MaxCut == 8

\* Worker threads (ThreadingMixIn starts one per connection).
Threads == {"w1", "w2"}
\* Names that match the '*.fits' pattern of the scan, and names that do not.
FitsFiles == {"a.fits", "b.fits", "c.fits"}
OtherFiles == {"notes.txt"}
AllFiles == FitsFiles \cup OtherFiles
\* What <rootdir>/input may hold when the server starts: any files when the
\* requests come one at a time, up to two .fits files when they race.
SeqListings == SUBSET AllFiles
ThreadedListings == {OtherFiles \cup x : x \in SUBSET {"a.fits", "b.fits"}}

None == "none"

VARIABLES
    pool_of_files,  \* QLARqstHandler.pool_of_files: list of file names
    task_inputs,    \* QLARqstHandler.task_inputs: task id -> input file
    current_file,   \* QLARqstHandler.current_file
    rootdir,        \* opts.rootdir: "cwd" when it is the working directory
    fs,             \* directory -> set of file names in it
    clock,          \* wall clock, in seconds
    pc,             \* per worker: the statement it is at
    loc,            \* per worker: its local variables
    last,           \* per worker: how its latest request ended
    issued,         \* the task descriptors sent so far, in order
    nreq,           \* requests accepted so far
    request,        \* the POST request being served: headers, path, body
    rfile,          \* self.rfile: the bytes of the request not yet read
    boundary,       \* deal_post_data: boundary
    remainbytes,    \* deal_post_data: remainbytes
    line,           \* deal_post_data: line
    preline,        \* deal_post_data: preline
    fn,             \* deal_post_data: fn, the destination path
    out,            \* deal_post_data: out, the destination file object
    disk,           \* destination path -> bytes of the file there
    upc,            \* the statement the POST handler is at
    result,         \* what deal_post_data returned or raised
    page,           \* the response do_POST sent
    getreq,         \* the GET request being served: self.path
    tree,           \* what is under the root: path -> file, dir or missing
    gpc,            \* the statement do_GET is at
    path,           \* do_GET: path, below the root
    response,       \* what do_GET sent
    obs_id,         \* QLARqstHandler.obs_id
    in_name,        \* an in_file, as its characters
    derived,        \* the out_file and log_file the two scripts give it
    npc,            \* which of the two scripts have computed their names
    handler         \* the original server's one handler: where it is

\* The task server's state, and the upload handler's.
dvars == <<pool_of_files, task_inputs, current_file, rootdir, fs, clock,
           pc, loc, last, issued, nreq>>
uvars == <<request, rfile, boundary, remainbytes, line, preline, fn, out,
           disk, upc, result, page>>
\* The state of a GET request for a file.
gvars == <<getreq, tree, gpc, path, response>>
\* The observation id, and the names derived from one input name.
xvars == <<obs_id, in_name, derived, npc, handler>>
vars == <<dvars, uvars, gvars, xvars>>

\* ------------------------------------------------------------ class state
\* src/test-dataserver.py:155
generate_dummy_files == FALSE
\* src/test-dataserver.py:158-159
input_files_dir == "input"
processed_files_dir == "processed"

\* The directory get_new_input_files lists: <rootdir>/input.
ScanDir == <<rootdir, input_files_dir>>
\* The directories do_end_task renames between: ./input and ./processed.
FromDir == <<"cwd", input_files_dir>>
ToDir == <<"cwd", processed_files_dir>>
Dirs == {<<"cwd", input_files_dir>>, <<"cwd", processed_files_dir>>,
         <<"other", input_files_dir>>}

\* The UTC time of day, in seconds, at clock reading 0: 00:00:58.
Epoch == 58

\* The digits %M%S that strftime prints for clock reading c, as a number
\* (the date and the hour do not change over a run).
Stamp(c) == ((Epoch + c) \div 60) * 100 + ((Epoch + c) % 60)

\* (mutant) the id is made from the minute only.
TaskIdByMinute(c) == <<"QDTsrv", (Epoch + c) \div 60>>

\* strftime("QDTsrv_%Y%m%d-%H%M%S", gmtime()): one id per clock second.
TaskId(c) == <<"QDTsrv", Stamp(c)>>
TaskIds == {TaskId(c) : c \in 0..MaxClock}
\* Values a client may send as the task_id query parameter.
EndArgs == TaskIds \cup {<<"bogus", 0>>}

\* glob.glob('<rootdir>/input/*.fits'): the matching entries of a listing.
GlobFits(names) == names \cap FitsFiles

\* All orders in which a listing may return the set s.
RECURSIVE Orderings(_)
Orderings(s) ==
    IF s = {} THEN {<<>>}
    ELSE UNION {{<<x>> \o o : o \in Orderings(s \ {x})} : x \in s}

Range(s) == {s[i] : i \in 1..Len(s)}

\* The locals of a handler before it runs.  Beside the code's own locals a
\* worker records what its request did: refills counts its calls of
\* get_new_input_files, appended the items these calls appended, waited
\* whether a scan of its refill listed no matching file, second is the clock
\* reading its task id was made from (-1: none yet).
NoLocals == [arg |-> None, task_file |-> None, in_file |-> None,
             new_task_id |-> None, entries |-> <<>>, before |-> <<>>,
             race |-> 0, refills |-> 0, appended |-> 0, waited |-> FALSE,
             second |-> -1]

Idle(t) == pc[t] = "idle"

\* The request of worker t ends: with a response, or with the uncaught
\* exception that ends the handler without one.
Finish(t, outcome) ==
    /\ pc' = [pc EXCEPT ![t] = "idle"]
    /\ loc' = [loc EXCEPT ![t] = NoLocals]
    /\ last' = [last EXCEPT ![t] = outcome]

Goto(t, label) == pc' = [pc EXCEPT ![t] = label]

\* do_POST has not sent its page yet.
NoPage == [code |-> 0, strong |-> None, info |-> None]

\* deal_post_data has not returned yet.
NoResult == [kind |-> "none", ok |-> FALSE, info |-> None]

\* ------------------------------------------------------------------- Init
\* No POST request is being served.
NoUpload ==
    /\ request = None
    /\ rfile = <<>>
    /\ boundary = None
    /\ remainbytes = 0
    /\ line = <<>>
    /\ preline = <<>>
    /\ fn = None
    /\ out = None
    /\ disk = <<>>
    /\ upc = "idle"
    /\ result = NoResult
    /\ page = NoPage

\* No GET request for a file is being served.
NoGet ==
    /\ getreq = None
    /\ tree = <<>>
    /\ gpc = "idle"
    /\ path = <<>>
    /\ response = None

\* obs_id = 12000 in the class body.
FirstObsId == 12000

\* The original server's handler between requests.  Beside the loop
\* variables x and dither it records what its refill found when it began:
\* the observation id and the number of files in the input directory.
NoHandler == [pc |-> "idle", x |-> 0, dither |-> 1, obs_before |-> 0,
              files_before |-> 0]

\* The observation id as the class body sets it; no name is being derived
\* and the original server is not running.
NoNames ==
    /\ obs_id = FirstObsId
    /\ in_name = <<>>
    /\ derived = None
    /\ npc = "idle"
    /\ handler = NoHandler

\* The class attributes as the class body sets them, before any request.
TaskServerInit(listings) ==
    /\ pool_of_files = <<>>
    /\ task_inputs = <<>>
    /\ current_file = ""
    /\ rootdir \in {"cwd", "other"}
    /\ \E scan \in listings :
         fs = [d \in Dirs |-> IF d = ScanDir THEN scan ELSE {}]
    /\ clock = 0
    /\ pc = [t \in Threads |-> "idle"]
    /\ loc = [t \in Threads |-> NoLocals]
    /\ last = [t \in Threads |-> [op |-> None, status |-> None, at |-> None]]
    /\ issued = <<>>
    /\ nreq = 0

Init == TaskServerInit(ThreadedListings) /\ NoUpload /\ NoGet /\ NoNames
InitSeq == TaskServerInit(SeqListings) /\ NoUpload /\ NoGet /\ NoNames

\* --------------------------------------------------------------- get_task
\* The workers that were handed a get_task request at the pool as it is now,
\* have not run a statement of it yet, and see a pool of exactly one item.
Racers(t) ==
    {u \in Threads \ {t} : /\ pc[u] = "gt_check"
                            /\ loc[u].race = 0
                            /\ loc[u].before = pool_of_files
                            /\ Len(pool_of_files) = 1}

\* do_GET routes /get_task to do_get_task.  The locals before and race only
\* record what the request found: the pool on arrival, and the number of the
\* race it is part of (0: none).
AcceptGetTask(t, limit) ==
    /\ Idle(t)
    /\ nreq < limit
    /\ nreq' = nreq + 1
    /\ Goto(t, "gt_check")
    /\ loc' = [u \in Threads |->
                 IF u = t
                 THEN [loc[u] EXCEPT !.before = pool_of_files,
                                     !.race = IF Racers(t) = {} THEN 0
                                              ELSE nreq + 1]
                 ELSE IF u \in Racers(t)
                 THEN [loc[u] EXCEPT !.race = nreq + 1]
                 ELSE loc[u]]
    /\ UNCHANGED <<pool_of_files, task_inputs, current_file, rootdir, fs,
                   clock, last, issued>>
    /\ UNCHANGED <<uvars, gvars, xvars>>

\* A get_task request, one of the MaxRequests of a run.
StartGetTask(t) == AcceptGetTask(t, MaxRequests)

\* if len(QLARqstHandler.pool_of_files) < 1: get_new_input_files(...)
GetTaskCheck(t) ==
    /\ pc[t] = "gt_check"
    /\ IF Len(pool_of_files) < 1
       THEN /\ Goto(t, "gnif_while")
            /\ loc' = [loc EXCEPT ![t].refills = @ + 1]
       ELSE /\ Goto(t, "gt_pop")
            /\ UNCHANGED loc
    /\ UNCHANGED <<pool_of_files, task_inputs, current_file, rootdir, fs,
                   clock, last, issued, nreq>>
    /\ UNCHANGED <<uvars, gvars, xvars>>

\* (mutant) if in place of while: one scan, whatever it lists.
GnifWhileOnce(t) ==
    /\ pc[t] = "gnif_while"
    /\ IF Len(pool_of_files) < 1 /\ ~loc[t].waited
       THEN Goto(t, "gnif_glob")
       ELSE Goto(t, "gt_pop")
    /\ UNCHANGED <<pool_of_files, task_inputs, current_file, rootdir, fs,
                   clock, loc, last, issued, nreq>>
    /\ UNCHANGED <<uvars, gvars, xvars>>

\* while len(pool) < 1:
GnifWhile(t) ==
    /\ pc[t] = "gnif_while"
    /\ IF Len(pool_of_files) < 1
       THEN Goto(t, "gnif_glob")
       ELSE Goto(t, "gt_pop")
    /\ UNCHANGED <<pool_of_files, task_inputs, current_file, rootdir, fs,
                   clock, loc, last, issued, nreq>>
    /\ UNCHANGED <<uvars, gvars, xvars>>

\* for entry in glob.glob('{}/{}/*.fits'...): the listing, in any order.
GnifGlob(t) ==
    /\ pc[t] = "gnif_glob"
    /\ \E order \in Orderings(GlobFits(fs[ScanDir])) :
         /\ loc' = [loc EXCEPT ![t].entries = order,
                               ![t].waited = @ \/ order = <<>>]
         /\ IF order = <<>>
            THEN Goto(t, "gnif_while")
            ELSE Goto(t, "gnif_append")
    /\ UNCHANGED <<pool_of_files, task_inputs, current_file, rootdir, fs,
                   clock, last, issued, nreq>>
    /\ UNCHANGED <<uvars, gvars, xvars>>

\* (mutant) only the first entry of the listing is appended.
GnifAppendFirstOnly(t) ==
    /\ pc[t] = "gnif_append"
    /\ pool_of_files' = Append(pool_of_files, Head(loc[t].entries))
    /\ loc' = [loc EXCEPT ![t].entries = <<>>, ![t].appended = @ + 1]
    /\ Goto(t, "gnif_while")
    /\ UNCHANGED <<task_inputs, current_file, rootdir, fs, clock, last,
                   issued, nreq>>
    /\ UNCHANGED <<uvars, gvars, xvars>>

\* pool.append(os.path.basename(entry)), once per entry of the listing.
GnifAppend(t) ==
    /\ pc[t] = "gnif_append"
    /\ pool_of_files' = Append(pool_of_files, Head(loc[t].entries))
    /\ loc' = [loc EXCEPT ![t].entries = Tail(@), ![t].appended = @ + 1]
    /\ IF Tail(loc[t].entries) = <<>>
       THEN Goto(t, "gnif_while")
       ELSE Goto(t, "gnif_append")
    /\ UNCHANGED <<task_inputs, current_file, rootdir, fs, clock, last,
                   issued, nreq>>
    /\ UNCHANGED <<uvars, gvars, xvars>>

\* (mutant) list.pop(): the last item, removed.
PopBack(pool) ==
    [item |-> pool[Len(pool)], rest |-> SubSeq(pool, 1, Len(pool) - 1)]

\* (mutant) the front item is read and stays in the list.
PopFrontKeep(pool) == [item |-> Head(pool), rest |-> pool]

\* list.pop(0): the front item, removed.
PopFront(pool) == [item |-> Head(pool), rest |-> Tail(pool)]

\* in_file = QLARqstHandler.pool_of_files.pop(0)
GetTaskPop(t) ==
    /\ pc[t] = "gt_pop"
    /\ IF pool_of_files = <<>>
       THEN /\ Finish(t, [op |-> "get_task", status |-> "IndexError",
                         at |-> "do_get_task"])
            /\ UNCHANGED pool_of_files
       ELSE /\ pool_of_files' = PopFront(pool_of_files).rest
            /\ loc' = [loc EXCEPT ![t].in_file = PopFront(pool_of_files).item]
            /\ Goto(t, "gt_id")
            /\ UNCHANGED last
    /\ UNCHANGED <<task_inputs, current_file, rootdir, fs, clock, issued,
                   nreq>>
    /\ UNCHANGED <<uvars, gvars, xvars>>

\* new_task_id = strftime("QDTsrv_%Y%m%d-%H%M%S", gmtime())
GetTaskId(t) ==
    /\ pc[t] = "gt_id"
    /\ loc' = [loc EXCEPT ![t].new_task_id = TaskId(clock),
                          ![t].second = clock]
    /\ Goto(t, "gt_reg")
    /\ UNCHANGED <<pool_of_files, task_inputs, current_file, rootdir, fs,
                   clock, last, issued, nreq>>
    /\ UNCHANGED <<uvars, gvars, xvars>>

\* The characters of a file name.
Chars(f) ==
    CASE f = "a.fits" -> <<"a", ".", "f", "i", "t", "s">>
      [] f = "b.fits" -> <<"b", ".", "f", "i", "t", "s">>
      [] f = "c.fits" -> <<"c", ".", "f", "i", "t", "s">>
      [] f = "notes.txt" -> <<"n", "o", "t", "e", "s", ".", "t", "x", "t">>

\* The pattern pat matches the characters of s from position i on; a '.' in
\* the pattern matches any character.
MatchesAt(pat, s, i) ==
    /\ i + Len(pat) - 1 <= Len(s)
    /\ \A k \in 1..Len(pat) : pat[k] = "." \/ pat[k] = s[i + k - 1]

\* The scan of re.sub from position i of s on: a match of pat at i is
\* replaced by repl and the scan goes on behind it; otherwise the character
\* at i is kept.
RECURSIVE ReSubFrom(_, _, _, _)
ReSubFrom(pat, repl, s, i) ==
    IF i > Len(s) THEN <<>>
    ELSE IF MatchesAt(pat, s, i)
    THEN repl \o ReSubFrom(pat, repl, s, i + Len(pat))
    ELSE <<s[i]>> \o ReSubFrom(pat, repl, s, i + 1)

\* re.sub(pat, repl, s): every match of pat, leftmost first and without
\* overlap, is replaced by repl.  (The subject s is evaluated once, as the
\* argument of a call is.)
ReSub(pat, repl, s) ==
    CHOOSE r \in {ReSubFrom(pat, repl, text, 1) : text \in {s}} : TRUE

\* The texts of the substitutions of do_get_task.
LE1_VIS == <<"L", "E", "1", "_", "V", "I", "S">>
QLA_LE1_VIS == <<"Q", "L", "A", "_", "L", "E", "1", "-", "V", "I", "S">>
LE1_VIS_dash == <<"L", "E", "1", "-", "V", "I", "S">>
LE1_VIS_LOG == <<"L", "E", "1", "-", "V", "I", "S", "-", "L", "O", "G">>
dot_fits == <<".", "f", "i", "t", "s">>
dot_json == <<".", "j", "s", "o", "n">>
dot_log == <<".", "l", "o", "g">>

\* (mutant) the output name carries the second of the call.
OutFileStamped(in_file) ==
    ReSub(dot_fits, dot_json, ReSub(LE1_VIS, QLA_LE1_VIS, Chars(in_file)))
        \o <<IF clock = 0 THEN "0" ELSE "1">>

\* re.sub('.fits', '.json', re.sub('LE1_VIS', 'QLA_LE1-VIS', in_file)), on
\* the characters of in_file (the same line in both scripts).
OutName(s) == ReSub(dot_fits, dot_json, ReSub(LE1_VIS, QLA_LE1_VIS, s))

\* out_file = re.sub('.fits', '.json', re.sub('LE1_VIS', 'QLA_LE1-VIS', in_file))
OutFile(in_file) == OutName(Chars(in_file))

\* src/orig/webserver2.py:
\* log_file = re.sub('.json', '.log', re.sub('LE1_VIS', 'LE1-VIS-LOG', out_file))
OrigLogFile(out_file) ==
    ReSub(dot_json, dot_log, ReSub(LE1_VIS, LE1_VIS_LOG, out_file))

\* log_file = re.sub('.json', '.log', re.sub('LE1-VIS', 'LE1-VIS-LOG', out_file))
LogFile(out_file) ==
    ReSub(dot_json, dot_log, ReSub(LE1_VIS_dash, LE1_VIS_LOG, out_file))

\* d[k] = v on a dict.
DictSet(d, k, v) == [x \in DOMAIN d \cup {k} |-> IF x = k THEN v ELSE d[x]]

\* The JSON task descriptor of do_get_task.
TaskParams(t) ==
    [task_id |-> loc[t].new_task_id,
     in_file |-> loc[t].in_file,
     out_file |-> OutFile(loc[t].in_file),
     log_file |-> LogFile(OutFile(loc[t].in_file)),
     retrieve_path |-> input_files_dir,
     before |-> loc[t].before,
     race |-> loc[t].race,
     second |-> loc[t].second]

\* current_file = in_file; task_inputs[new_task_id] = in_file; send the JSON.
GetTaskRegister(t) ==
    /\ pc[t] = "gt_reg"
    /\ current_file' = loc[t].in_file
    /\ task_inputs' = DictSet(task_inputs, loc[t].new_task_id, loc[t].in_file)
    /\ issued' = Append(issued, TaskParams(t))
    /\ Finish(t, [op |-> "get_task", status |-> "200", at |-> "do_get_task"])
    /\ UNCHANGED <<pool_of_files, rootdir, fs, clock, nreq>>
    /\ UNCHANGED <<uvars, gvars, xvars>>

\* --------------------------------------------------------------- end_task
\* do_GET: self.do_end_task(task_id=args['task_id'][0])
AcceptEndTask(t, limit) ==
    /\ Idle(t)
    /\ nreq < limit
    /\ nreq' = nreq + 1
    /\ \E a \in EndArgs :
         /\ loc' = [loc EXCEPT ![t].arg = a]
         /\ Goto(t, "et_lookup")
    /\ UNCHANGED <<pool_of_files, task_inputs, current_file, rootdir, fs,
                   clock, last, issued>>
    /\ UNCHANGED <<uvars, gvars, xvars>>

\* An end_task request, one of the MaxRequests of a run.
StartEndTask(t) == AcceptEndTask(t, MaxRequests)

\* do_GET with no task_id in the query: args['task_id'] raises KeyError.
StartEndTaskNoArg(t) ==
    /\ Idle(t)
    /\ nreq < MaxRequests
    /\ nreq' = nreq + 1
    /\ Finish(t, [op |-> "end_task", status |-> "KeyError", at |-> "do_GET"])
    /\ UNCHANGED <<pool_of_files, task_inputs, current_file, rootdir, fs,
                   clock, issued>>
    /\ UNCHANGED <<uvars, gvars, xvars>>

\* (mutant) an id the registry does not hold falls back to current_file.
EndTaskLookupFallback(t) ==
    /\ pc[t] = "et_lookup"
    /\ loc' = [loc EXCEPT ![t].task_file =
                 IF loc[t].arg \in DOMAIN task_inputs
                 THEN task_inputs[loc[t].arg] ELSE current_file]
    /\ Goto(t, "et_rename")
    /\ UNCHANGED <<pool_of_files, task_inputs, current_file, rootdir, fs,
                   clock, last, issued, nreq>>
    /\ UNCHANGED <<uvars, gvars, xvars>>

\* task_file = QLARqstHandler.task_inputs[task_id]
EndTaskLookup(t) ==
    /\ pc[t] = "et_lookup"
    /\ IF loc[t].arg \in DOMAIN task_inputs
       THEN /\ loc' = [loc EXCEPT ![t].task_file = task_inputs[loc[t].arg]]
            /\ Goto(t, "et_rename")
            /\ UNCHANGED last
       ELSE Finish(t, [op |-> "end_task", status |-> "KeyError",
                       at |-> "do_end_task"])
    /\ UNCHANGED <<pool_of_files, task_inputs, current_file, rootdir, fs,
                   clock, issued, nreq>>
    /\ UNCHANGED <<uvars, gvars, xvars>>

\* (mutant) the file is copied: it stays in src.
RenameCopy(f, from, to) ==
    [d \in Dirs |-> IF d = to THEN fs[d] \cup {f} ELSE fs[d]]

\* os.rename(src, dst) when it succeeds: the name leaves src and is in dst.
Rename(f, from, to) ==
    [d \in Dirs |-> IF d = from THEN fs[d] \ {f}
                    ELSE IF d = to THEN fs[d] \cup {f}
                    ELSE fs[d]]

\* (mutant) a rename that fails has already removed the source.
EndTaskRenameLosesFile(t) ==
    /\ pc[t] = "et_rename"
    /\ \E permitted \in BOOLEAN :
         IF loc[t].task_file \in fs[FromDir] /\ permitted
         THEN /\ fs' = Rename(loc[t].task_file, FromDir, ToDir)
              /\ Finish(t, [op |-> "end_task", status |-> "200",
                             at |-> "do_end_task"])
         ELSE /\ fs' = [fs EXCEPT ![FromDir] = @ \ {loc[t].task_file}]
              /\ Finish(t, [op |-> "end_task", status |-> "OSError",
                             at |-> "do_end_task"])
    /\ UNCHANGED <<pool_of_files, task_inputs, current_file, rootdir, clock,
                   issued, nreq>>
    /\ UNCHANGED <<uvars, gvars, xvars>>

\* (mutant) a completed task is deleted from the registry.
EndTaskRenameForget(t) ==
    /\ pc[t] = "et_rename"
    /\ \E permitted \in BOOLEAN :
         IF loc[t].task_file \in fs[FromDir] /\ permitted
         THEN /\ fs' = Rename(loc[t].task_file, FromDir, ToDir)
              /\ task_inputs' = [k \in DOMAIN task_inputs \ {loc[t].arg} |->
                                   task_inputs[k]]
              /\ Finish(t, [op |-> "end_task", status |-> "200",
                             at |-> "do_end_task"])
         ELSE /\ fs' = fs
              /\ task_inputs' = task_inputs
              /\ Finish(t, [op |-> "end_task", status |-> "OSError",
                             at |-> "do_end_task"])
    /\ UNCHANGED <<pool_of_files, current_file, rootdir, clock, issued, nreq>>
    /\ UNCHANGED <<uvars, gvars, xvars>>

\* (mutant) a rename whose source is missing is passed over in silence.
EndTaskRenameQuiet(t) ==
    /\ pc[t] = "et_rename"
    /\ \E permitted \in BOOLEAN :
         IF loc[t].task_file \in fs[FromDir] /\ permitted
         THEN /\ fs' = Rename(loc[t].task_file, FromDir, ToDir)
              /\ Finish(t, [op |-> "end_task", status |-> "200",
                             at |-> "do_end_task"])
         ELSE /\ fs' = fs
              /\ Finish(t, [op |-> "end_task",
                             status |-> IF loc[t].task_file \in fs[FromDir]
                                        THEN "OSError" ELSE "200",
                             at |-> "do_end_task"])
    /\ UNCHANGED <<pool_of_files, task_inputs, current_file, rootdir, clock,
                   issued, nreq>>
    /\ UNCHANGED <<uvars, gvars, xvars>>

\* os.rename(from_file, to_file); self.send_content().  The rename raises
\* OSError when the source is missing or the move is not permitted (a
\* directory that is missing or not writable).
EndTaskRename(t) ==
    /\ pc[t] = "et_rename"
    /\ \E permitted \in BOOLEAN :
         IF loc[t].task_file \in fs[FromDir] /\ permitted
         THEN /\ fs' = Rename(loc[t].task_file, FromDir, ToDir)
              /\ Finish(t, [op |-> "end_task", status |-> "200",
                             at |-> "do_end_task"])
         ELSE /\ fs' = fs
              /\ Finish(t, [op |-> "end_task", status |-> "OSError",
                             at |-> "do_end_task"])
    /\ UNCHANGED <<pool_of_files, task_inputs, current_file, rootdir, clock,
                   issued, nreq>>
    /\ UNCHANGED <<uvars, gvars, xvars>>

\* ------------------------------------------------------------ environment
\* A second passes.
Tick ==
    /\ clock < MaxClock
    /\ clock' = clock + 1
    /\ UNCHANGED <<pool_of_files, task_inputs, current_file, rootdir, fs,
                   pc, loc, last, issued, nreq>>
    /\ UNCHANGED <<uvars, gvars, xvars>>

\* ------------------------------------------------------------------- Next
Step(t) ==
    \/ GetTaskCheck(t)
    \/ GnifWhile(t)
    \/ GnifGlob(t)
    \/ GnifAppend(t)
    \/ GetTaskPop(t)
    \/ GetTaskId(t)
    \/ GetTaskRegister(t)
    \/ EndTaskLookup(t)
    \/ EndTaskRename(t)

\* ThreadedHTTPServer: every connection gets its own thread at once.
Next ==
    \/ \E t \in Threads : StartGetTask(t)
    \/ \E t \in Threads : StartEndTask(t)
    \/ \E t \in Threads : StartEndTaskNoArg(t)
    \/ \E t \in Threads : Step(t)
    \/ Tick

Spec == Init /\ [][Next]_vars

\* The same handlers with one request at a time: a request is accepted only
\* when no worker is inside a handler.
Quiet == \A t \in Threads : Idle(t)

NextSeq ==
    \/ \E t \in Threads : Quiet /\ StartGetTask(t)
    \/ \E t \in Threads : Quiet /\ StartEndTask(t)
    \/ \E t \in Threads : Quiet /\ StartEndTaskNoArg(t)
    \/ \E t \in Threads : Step(t)
    \/ Tick


SpecSeq == InitSeq /\ [][NextSeq]_vars

\* A longer run of requests, one at a time and each on the same worker, at
\* ./input holding a.fits and b.fits.
MaxStaleRequests == 5

InitStale ==
    /\ TaskServerInit({{"a.fits", "b.fits"}})
    /\ NoUpload
    /\ NoGet
    /\ NoNames
    /\ rootdir = "cwd"

NextStale ==
    \/ Quiet /\ AcceptGetTask("w1", MaxStaleRequests)
    \/ Quiet /\ AcceptEndTask("w1", MaxStaleRequests)
    \/ Step("w1")
    \/ Tick

SpecStale == InitStale /\ [][NextStale]_vars

\* get_task requests, one at a time, at an input directory that holds no
\* matching file when the server starts and into which files arrive and stay.
InitArrive ==
    TaskServerInit({{}, OtherFiles}) /\ NoUpload /\ NoGet /\ NoNames

\* The files that arrive.
ArrivingFiles == {"a.fits", "b.fits"}

\* Something outside the server puts file f into <rootdir>/input.
Arrive(f) ==
    /\ f \notin fs[ScanDir]
    /\ fs' = [fs EXCEPT ![ScanDir] = @ \cup {f}]
    /\ UNCHANGED <<pool_of_files, task_inputs, current_file, rootdir, clock,
                   pc, loc, last, issued, nreq>>
    /\ UNCHANGED <<uvars, gvars, xvars>>

\* The statements of do_get_task and of the refill it calls.
GetTaskStep(t) ==
    \/ GetTaskCheck(t)
    \/ GnifWhile(t)
    \/ GnifGlob(t)
    \/ GnifAppend(t)
    \/ GetTaskPop(t)
    \/ GetTaskId(t)
    \/ GetTaskRegister(t)

NextArrive ==
    \/ \E t \in Threads : Quiet /\ StartGetTask(t)
    \/ \E t \in Threads : GetTaskStep(t)
    \/ \E f \in ArrivingFiles : Arrive(f)
    \/ Tick

\* A worker thread inside a handler is scheduled again and again: the refill
\* loop neither sleeps nor blocks.  Nothing obliges a file to arrive.  (Every
\* statement of get_task moves the worker or appends to the pool.)
SpecArrive ==
    /\ InitArrive
    /\ [][NextArrive]_vars
    /\ \A t \in Threads : WF_<<pc, pool_of_files>>(GetTaskStep(t))

\* ------------------------------------------------------------ POST upload
\* The bytes of a request are symbols: CR, LF, "x" (a byte of text) and one
\* symbol for each piece of text that the parser looks for as a whole.
\* Lengths count symbols.
CR == "CR"
LF == "LF"
Eq == "="
Quote == "Q"
Dashes == "--"
Tok == "B"
ParamBoundary == "; boundary"
ParamCharset == "; charset"
CDisp == "Content-Disposition: form-data; "
NameFile == "name=file; filename=Q"
NameOther == "name=note; filename=Q"

\* The boundary the client declares and frames the body with.
ClientBoundary == <<Tok>>

\* self.headers.plisttext, the parameters of Content-Type:
\*   ; boundary=B     ; boundary="B"     ; boundary=B; charset=x     (none)
PlistTexts ==
    {<<ParamBoundary, Eq, Tok>>,
     <<ParamBoundary, Eq, Quote, Tok, Quote>>,
     <<ParamBoundary, Eq, Tok, ParamCharset, Eq, "x">>,
     <<>>}

\* First lines of a body: the opening boundary line, or text.
FirstLines == {<<Dashes>> \o ClientBoundary \o <<CR, LF>>, <<"x", CR, LF>>}

\* Second lines: the field "file" with filename x, another field, the field
\* "file" with an empty filename.
SecondLines ==
    {<<CDisp, NameFile, "x", Quote, CR, LF>>,
     <<CDisp, NameOther, "x", Quote, CR, LF>>,
     <<CDisp, NameFile, Quote, CR, LF>>}

\* What may stand between the Content-Disposition line and the blank
\* separator line: nothing, or one more header line of the part.
ContentTypeHeader == "Content-Type: application/octet-stream"
SecondaryHeaders == {<<>>, <<ContentTypeHeader, CR, LF>>}

Separator == <<CR, LF>>
ClosingLine == <<Dashes>> \o ClientBoundary \o <<Dashes, CR, LF>>

\* File contents: every byte string up to MaxContent bytes.
ContentBytes == {"x", CR, LF, Tok}
Contents == UNION {[1..n -> ContentBytes] : n \in 0..MaxContent}

\* A multipart body around content c.
Body(first, second, header, c, closing) ==
    first \o second \o header \o Separator \o c \o <<CR, LF>> \o closing

\* self.path translated by translate_path: the upload directory.
UploadDir == "cwd/upload"

\* The Content-Length header: absent, not a number, or a number, given by
\* its offset from the true length of the body (from MaxCut short to one
\* over).
ContentLengths ==
    {[kind |-> k, off |-> 0] : k \in {"absent", "junk"}}
        \cup {[kind |-> "number", off |-> d] : d \in -MaxCut..1}

\* The POST requests: headers and body.  sent records what the client
\* framed: the file content and whether the closing boundary line follows.
Requests ==
    {[plisttext |-> p, content_length |-> n, path |-> UploadDir,
      body |-> Body(f, d, h, c, cl),
      sent |-> [content |-> c, first |-> f, second |-> d, header |-> h,
                closing |-> cl]] :
        p \in PlistTexts, f \in FirstLines, d \in SecondLines,
        h \in SecondaryHeaders, c \in Contents, cl \in {ClosingLine, <<>>},
        n \in ContentLengths}

\* int(self.headers['content-length']) for a header that is a number: the
\* request records it relative to the length of the body.
DeclaredLength(r) == Len(r.body) + r.content_length.off

\* s.split("=")
RECURSIVE SplitEq(_)
SplitEq(s) ==
    IF \A i \in 1..Len(s) : s[i] # Eq
    THEN <<s>>
    ELSE LET i == CHOOSE k \in 1..Len(s) :
                     s[k] = Eq /\ \A m \in 1..(k - 1) : s[m] # Eq
         IN  <<SubSeq(s, 1, i - 1)>> \o SplitEq(SubSeq(s, i + 1, Len(s)))

\* rfile.readline(): up to and including the first LF; the rest of the
\* stream, or nothing, when the peer has closed and no LF follows.
ReadLine(stream) ==
    IF \E i \in 1..Len(stream) : stream[i] = LF
    THEN SubSeq(stream, 1, CHOOSE k \in 1..Len(stream) :
                     stream[k] = LF /\ \A m \in 1..(k - 1) : stream[m] # LF)
    ELSE stream

AfterLine(stream) == SubSeq(stream, Len(ReadLine(stream)) + 1, Len(stream))

\* (mutant) s is a delimiter line: two dashes, then sub.
IsDelimiterLine(sub, s) ==
    /\ Len(s) > Len(sub)
    /\ s[1] = Dashes
    /\ SubSeq(s, 2, Len(sub) + 1) = sub

\* sub in s, for byte strings.
Contains(sub, s) ==
    \E i \in 0..(Len(s) - Len(sub)) : SubSeq(s, i + 1, i + Len(sub)) = sub

Max(S) == CHOOSE x \in S : \A y \in S : y <= x

\* re.findall(r'Content-Disposition.*name="file"; filename="(.*)"', l): the
\* captured file names, of which only the first is used.  '.' matches no LF
\* and both '.*' are greedy.
FindFileName(l) ==
    LET text == IF l # <<>> /\ l[Len(l)] = LF
                THEN SubSeq(l, 1, Len(l) - 1) ELSE l
        quotes == {k \in 1..Len(text) : text[k] = Quote}
        names == {j \in 1..Len(text) :
                    /\ text[j] = NameFile
                    /\ \E i \in 1..(j - 1) : text[i] = CDisp
                    /\ \E k \in quotes : k > j}
    IN  IF names = {} THEN <<>>
        ELSE <<SubSeq(text, Max(names) + 1, Max(quotes) - 1)>>

\* os.path.join(path, name)
Join(dir, name) == <<dir, name>>
\* A path that names a directory: the join with an empty file name.
IsDir(p) == p[2] = <<>>

\* The last byte is dropped and a CR before it is kept.
StripLastByteOnly(p) ==
    IF p = <<>> THEN <<>> ELSE SubSeq(p, 1, Len(p) - 1)

\* preline[0:-1], and once more if what is left ends with CR.
StripEol(p) ==
    LET q == IF p = <<>> THEN <<>> ELSE SubSeq(p, 1, Len(p) - 1)
    IN  IF q # <<>> /\ q[Len(q)] = CR THEN SubSeq(q, 1, Len(q) - 1) ELSE q

\* return (ok, info), and an exception that leaves deal_post_data.
Returned(ok, info) == [kind |-> "return", ok |-> ok, info |-> info]
Raised(exc) == [kind |-> "raise", ok |-> FALSE, info |-> exc]

\* Where the upload of file name x goes, and what may be there before.
DestPath == Join(UploadDir, <<"x">>)
InitialDisks == {<<>>, DictSet(<<>>, DestPath, <<"old">>)}

\* A POST request has arrived; the task server is idle.
InitUpload ==
    /\ TaskServerInit({OtherFiles})
    /\ NoGet
    /\ NoNames
    /\ rootdir = "cwd"
    /\ request \in Requests
    /\ rfile = request.body
    /\ boundary = None
    /\ remainbytes = 0
    /\ line = <<>>
    /\ preline = <<>>
    /\ fn = None
    /\ out = None
    /\ disk \in InitialDisks
    /\ upc = "headers"
    /\ result = NoResult
    /\ page = NoPage

\* boundary = self.headers.plisttext.split("=")[1]
\* remainbytes = int(self.headers['content-length'])
DealPostHeaders ==
    /\ upc = "headers"
    /\ LET pieces == SplitEq(request.plisttext) IN
         IF Len(pieces) < 2
         THEN /\ result' = Raised("IndexError")
              /\ upc' = "raised"
              /\ UNCHANGED <<boundary, remainbytes>>
         ELSE IF request.content_length.kind # "number"
         THEN /\ result' = Raised(IF request.content_length.kind = "absent"
                                   THEN "KeyError" ELSE "ValueError")
              /\ upc' = "raised"
              /\ boundary' = pieces[2]
              /\ UNCHANGED remainbytes
         ELSE /\ boundary' = pieces[2]
              /\ remainbytes' = DeclaredLength(request)
              /\ upc' = "first"
              /\ UNCHANGED result
    /\ UNCHANGED <<request, rfile, line, preline, fn, out, disk, page>>
    /\ UNCHANGED <<dvars, gvars, xvars>>

\* line = self.rfile.readline(); remainbytes -= len(line)
ReadInto(l) ==
    /\ l = ReadLine(rfile)
    /\ rfile' = AfterLine(rfile)
    /\ remainbytes' = remainbytes - Len(l)

\* The first line is read and accepted whatever it holds.
ReadFirstLineUnchecked ==
    /\ upc = "first"
    /\ ReadInto(line')
    /\ upc' = "disposition"
    /\ UNCHANGED <<request, boundary, preline, fn, out, disk, result, page>>
    /\ UNCHANGED <<dvars, gvars, xvars>>

\* The first line: if not boundary in line: return (False, ...)
ReadFirstLine ==
    /\ upc = "first"
    /\ ReadInto(line')
    /\ IF ~Contains(boundary, line')
       THEN /\ result' = Returned(FALSE, "Content NOT begin with boundary")
            /\ upc' = "returned"
       ELSE /\ upc' = "disposition"
            /\ UNCHANGED result
    /\ UNCHANGED <<request, boundary, preline, fn, out, disk, page>>
    /\ UNCHANGED <<dvars, gvars, xvars>>

\* The Content-Disposition line: fn = re.findall(...); if not fn: return
\* (False, ...); fn = os.path.join(self.translate_path(self.path), fn[0])
ReadDisposition ==
    /\ upc = "disposition"
    /\ ReadInto(line')
    /\ IF FindFileName(line') = <<>>
       THEN /\ result' = Returned(FALSE, "Can't find out file name...")
            /\ upc' = "returned"
            /\ UNCHANGED fn
       ELSE /\ fn' = Join(request.path, FindFileName(line')[1])
            /\ upc' = "separator"
            /\ UNCHANGED result
    /\ UNCHANGED <<request, boundary, preline, out, disk, page>>
    /\ UNCHANGED <<dvars, gvars, xvars>>

\* The line after the Content-Disposition line is read and dropped.
ReadSeparator ==
    /\ upc = "separator"
    /\ ReadInto(line')
    /\ upc' = "open"
    /\ UNCHANGED <<request, boundary, preline, fn, out, disk, result, page>>
    /\ UNCHANGED <<dvars, gvars, xvars>>

\* (mutant) open(fn, 'ab'): what the file held stays.
OpenForAppending(d, p) ==
    DictSet(d, p, IF p \in DOMAIN d THEN d[p] ELSE <<>>)

\* open(fn, 'wb'): the file exists and is empty.
OpenForWriting(d, p) == DictSet(d, p, <<>>)

\* try: out = open(fn, 'wb') / except IOError: ... return (False, ...).
\* The except branch looks the user up by the last part of the home
\* directory; pwd.getpwnam raises KeyError when that names no user.
OpenDestination ==
    /\ upc = "open"
    /\ \E outcome \in {"opened", "IOError", "IOError, KeyError"} :
         CASE outcome = "opened" ->
                /\ ~IsDir(fn)
                /\ disk' = OpenForWriting(disk, fn)
                /\ out' = "open"
                /\ upc' = "preline"
                /\ UNCHANGED result
           [] outcome = "IOError" ->
                /\ result' = Returned(FALSE,
                       "Can't create file to write, do you have permission to write?")
                /\ upc' = "returned"
                /\ UNCHANGED <<disk, out>>
           [] outcome = "IOError, KeyError" ->
                /\ result' = Raised("KeyError")
                /\ upc' = "raised"
                /\ UNCHANGED <<disk, out>>
    /\ UNCHANGED <<request, rfile, boundary, remainbytes, line, preline, fn,
                   page>>
    /\ UNCHANGED <<dvars, gvars, xvars>>

\* preline = self.rfile.readline(); remainbytes -= len(preline)
ReadPreline ==
    /\ upc = "preline"
    /\ ReadInto(preline')
    /\ upc' = "loop"
    /\ UNCHANGED <<request, boundary, line, fn, out, disk, result, page>>
    /\ UNCHANGED <<dvars, gvars, xvars>>

\* The loop test with >= in place of >.
LoopRunsAtZero(remaining) == remaining >= 0

\* while remainbytes > 0
LoopRuns(remaining) == remaining > 0

\* out.write(data)
Write(d, p, data) == [d EXCEPT ![p] = @ \o data]

\* One turn of the while loop, or the return after it.
BodyLoop ==
    /\ upc = "loop"
    /\ IF LoopRuns(remainbytes)
       THEN /\ ReadInto(line')
            /\ IF Contains(boundary, line')
               THEN /\ preline' = StripEol(preline)
                    /\ disk' = Write(disk, fn, preline')
                    /\ out' = "closed"
                    /\ result' = Returned(TRUE, "File upload success!")
                    /\ upc' = "returned"
               ELSE /\ disk' = Write(disk, fn, preline)
                    /\ preline' = line'
                    /\ UNCHANGED <<out, result, upc>>
       ELSE /\ result' = Returned(FALSE, "Unexpect Ends of data.")
            /\ upc' = "returned"
            /\ UNCHANGED <<rfile, remainbytes, line, preline, out, disk>>
    /\ UNCHANGED <<request, boundary, fn, page>>
    /\ UNCHANGED <<dvars, gvars, xvars>>

\* do_POST: r, info = self.deal_post_data(), then the result page.
DoPostPage ==
    /\ upc = "returned"
    /\ page' = [code |-> 200,
                strong |-> IF result.ok THEN "Success:" ELSE "Failed:",
                info |-> result.info]
    /\ upc' = "done"
    /\ UNCHANGED <<request, rfile, boundary, remainbytes, line, preline, fn,
                   out, disk, result>>
    /\ UNCHANGED <<dvars, gvars, xvars>>

NextUpload ==
    \/ DealPostHeaders
    \/ ReadFirstLine
    \/ ReadDisposition
    \/ ReadSeparator
    \/ OpenDestination
    \/ ReadPreline
    \/ BodyLoop
    \/ DoPostPage

SpecUpload == InitUpload /\ [][NextUpload]_vars

\* The handler's thread keeps running: a statement that can be executed is
\* executed.  (Every statement that changes anything changes the position,
\* the stream, the count or the pending line.)  A turn of the body loop that
\* changes nothing, and so can repeat for ever, is a stuttering step.
SpecUploadFair ==
    /\ InitUpload
    /\ [][NextUpload]_vars
    /\ WF_<<upc, rfile, remainbytes, preline>>(NextUpload)

\* -------------------------------------------------------------- GET files
\* A path is the sequence of its components: /sub/index.html is
\* <<"sub", "index.html">>.  These are the paths that may exist under the
\* root, each a regular file, a directory or missing; what is inside sub
\* exists only when sub is a directory.
Nodes == {<<"a.txt">>, <<"data.bin">>, <<"sub">>, <<"sub", "index.html">>,
          <<"sub", "index.htm">>}
Kinds == {"file", "dir", "missing"}
Trees ==
    {tr \in [Nodes -> Kinds] :
        tr[<<"sub">>] # "dir" =>
            /\ tr[<<"sub", "index.html">>] = "missing"
            /\ tr[<<"sub", "index.htm">>] = "missing"}

\* The GET requests: self.path as the part before '?' (rpath) and whether a
\* query follows it.
GetRequests ==
    {[rpath |-> p, query |-> q] :
        p \in Nodes \cup {<<"info">>, <<"get_task">>, <<"end_task">>,
                          <<"nothing.txt">>},
        q \in BOOLEAN}

\* os.path.exists, os.path.isdir, os.path.isfile
Kind(p) == IF p \in Nodes THEN tree[p] ELSE "missing"
Exists(p) == Kind(p) # "missing"
IsDirectory(p) == Kind(p) = "dir"
IsFile(p) == Kind(p) = "file"

\* os.path.splitext(path)[1].lower(), for the names of the model.
Ext(p) ==
    LET name == p[Len(p)] IN
    CASE name \in {"a.txt", "nothing.txt"} -> ".txt"
      [] name = "index.html" -> ".html"
      [] name = "index.htm" -> ".htm"
      [] name = "data.bin" -> ".bin"
      [] OTHER -> ""

\* QLARqstHandler.content_type, for the extensions of the model.
ContentType(ext) ==
    CASE ext = ".txt" -> "text/plain"
      [] ext = ".html" -> "text/html"
      [] ext = ".htm" -> "text/html"

\* send_content(code, mimetype): self.send_response(200) whatever code is,
\* then the Content-type header.
SendContent(code, mimetype) == [status |-> 200, mimetype |-> mimetype]

\* A GET request has arrived.
InitGet ==
    /\ TaskServerInit({OtherFiles})
    /\ NoUpload
    /\ NoNames
    /\ rootdir = "cwd"
    /\ getreq \in GetRequests
    /\ tree \in Trees
    /\ gpc = "route"
    /\ path = <<>>
    /\ response = None

\* do_GET: /info, /get_task and /end_task go to their handlers (the first
\* only without a query); every other path is a file below the root.
GetRoute ==
    /\ gpc = "route"
    /\ IF getreq.rpath = <<"info">> /\ ~getreq.query
       THEN /\ response' = [handler |-> "do_info"]
            /\ gpc' = "done"
            /\ UNCHANGED path
       ELSE IF getreq.rpath \in {<<"get_task">>, <<"end_task">>}
       THEN /\ response' = [handler |-> IF getreq.rpath = <<"get_task">>
                                        THEN "do_get_task" ELSE "do_end_task"]
            /\ gpc' = "done"
            /\ UNCHANGED path
       ELSE /\ path' = getreq.rpath
            /\ gpc' = "index"
            /\ UNCHANGED response
    /\ UNCHANGED <<getreq, tree>>
    /\ UNCHANGED <<dvars, uvars, xvars>>

\* if os.path.exists(path) and os.path.isdir(path): the first of
\* /index.html and /index.htm that exists replaces path.
GetIndex ==
    /\ gpc = "index"
    /\ path' = IF Exists(path) /\ IsDirectory(path)
               THEN IF Exists(path \o <<"index.html">>)
                    THEN path \o <<"index.html">>
                    ELSE IF Exists(path \o <<"index.htm">>)
                    THEN path \o <<"index.htm">>
                    ELSE path
               ELSE path
    /\ gpc' = "send"
    /\ UNCHANGED <<getreq, tree, response>>
    /\ UNCHANGED <<dvars, uvars, xvars>>

\* if os.path.exists(path) and os.path.isfile(path): self.send_file(path);
\* else: self.send_content(code=500) and the 'Server Access Error' page.
\* send_file sends the headers and then opens the file, which raises
\* IOError when the file may not be read.
GetSend ==
    /\ gpc = "send"
    /\ IF Exists(path) /\ IsFile(path)
       THEN \E readable \in BOOLEAN :
              response' =
                [handler |-> "send_file",
                 head |-> IF Ext(path) \in {".txt", ".html", ".htm"}
                          THEN SendContent(200, ContentType(Ext(path)))
                          ELSE SendContent(200, "text/html"),
                 body |-> IF readable THEN "file bytes" ELSE "IOError"]
       ELSE response' = [handler |-> "do_GET",
                         head |-> SendContent(500, "text/html"),
                         body |-> "Server Access Error"]
    /\ gpc' = "done"
    /\ UNCHANGED <<getreq, tree, path>>
    /\ UNCHANGED <<dvars, uvars, xvars>>

NextGet ==
    \/ GetRoute
    \/ GetIndex
    \/ GetSend

SpecGet == InitGet /\ [][NextGet]_vars

\* ------------------------------------------------------------ file names
\* Longest input name, in pieces before the final '.fits'.
MaxPieces == 2

\* The pieces input names are made of: the tag, the tag as the output
\* carries it, a character, and texts that the patterns '.fits' and '.json'
\* match without being extensions.
Pieces ==
    {LE1_VIS, LE1_VIS_dash, <<"W">>, <<"_", "f", "i", "t", "s">>,
     <<"_", "j", "s", "o", "n">>}

RECURSIVE Flatten(_)
Flatten(ps) == IF ps = <<>> THEN <<>> ELSE Head(ps) \o Flatten(Tail(ps))

\* Input names: up to MaxPieces pieces, then the extension '.fits'.
InNames ==
    {Flatten(ps) \o dot_fits :
        ps \in UNION {[1..n -> Pieces] : n \in 0..MaxPieces}}

\* An in_file has been popped; neither script has derived its names yet.
InitNames ==
    /\ TaskServerInit({OtherFiles})
    /\ NoUpload
    /\ NoGet
    /\ rootdir = "cwd"
    /\ obs_id = FirstObsId
    /\ in_name \in InNames
    /\ derived = [new |-> None, orig |-> None]
    /\ npc = {}
    /\ handler = NoHandler

\* src/test-dataserver.py, do_get_task: out_file and log_file.
DeriveNew ==
    /\ "new" \notin npc
    /\ derived' = [derived EXCEPT !.new = [out_file |-> OutName(in_name),
                                        log_file |-> LogFile(OutName(in_name))]]
    /\ npc' = npc \cup {"new"}
    /\ UNCHANGED <<obs_id, in_name, handler>>
    /\ UNCHANGED <<dvars, uvars, gvars>>

\* src/orig/webserver2.py, do_get_task: out_file and log_file.
DeriveOrig ==
    /\ "orig" \notin npc
    /\ derived' = [derived EXCEPT !.orig =
                    [out_file |-> OutName(in_name),
                     log_file |-> OrigLogFile(OutName(in_name))]]
    /\ npc' = npc \cup {"orig"}
    /\ UNCHANGED <<obs_id, in_name, handler>>
    /\ UNCHANGED <<dvars, uvars, gvars>>

NextNames ==
    \/ DeriveNew
    \/ DeriveOrig

SpecNames == InitNames /\ [][NextNames]_vars

\* ------------------------------------------------------ original server
\* src/orig/webserver2.py: one HTTPServer, one request at a time, and a pool
\* refilled with generated names only.

\* Requests accepted over one run of the original server.
MaxOrigRequests == 42

\* for x in range(10): for dither in range(1, 5):
Offsets == 10
Dithers == 4
\* gmtime(time() + 100000000 + x * 100)
TagOffset == 100000000
TagStep == 100

\* strftime("%Y%m%dT%H%M%S", gmtime(time() + 100000000 + x * 100)) at clock
\* reading c: one text per second.
DatetimeTag(c, x) == ToString(Epoch + c + TagOffset + x * TagStep)

\* 'EUC_LE1_VIS-W-{}-{}_{}.0Z.fits'.format(obs_id, dither, datetime_tag);
\* each number is one symbol of the name.
FileName(o, dither, tag) ==
    <<"E", "U", "C", "_">> \o LE1_VIS
        \o <<"-", "W", "-", ToString(o), "-", ToString(dither), "_", tag,
             ".", "0", "Z">>
        \o dot_fits

\* (mutant) the observation id stays as it is.
SameObsId(o) == o

\* QLARqstHandler.obs_id = QLARqstHandler.obs_id + 1
NextObsId(o) == o + 1

InitOrig ==
    /\ TaskServerInit({{}})
    /\ NoUpload
    /\ NoGet
    /\ NoNames
    /\ rootdir = "cwd"

\* do_GET routes /get_task to do_get_task:
\* if len(QLARqstHandler.pool_of_files) < 1: get_new_input_files(...)
OrigGetTask ==
    /\ handler.pc = "idle"
    /\ nreq < MaxOrigRequests
    /\ nreq' = nreq + 1
    /\ handler' = IF Len(pool_of_files) < 1
                  THEN [pc |-> "refill", x |-> 0, dither |-> 1,
                        obs_before |-> obs_id,
                        files_before |-> Cardinality(fs[ScanDir])]
                  ELSE [NoHandler EXCEPT !.pc = "respond"]
    /\ UNCHANGED <<obs_id, in_name, derived, npc>>
    /\ UNCHANGED <<pool_of_files, task_inputs, current_file, rootdir, fs,
                   clock, pc, loc, last, issued>>
    /\ UNCHANGED <<uvars, gvars>>

\* One turn of the inner loop of get_new_input_files: the name is appended,
\* create_dummy_file writes <rootdir>/input/<name>, obs_id is advanced.
OrigAppend ==
    /\ handler.pc = "refill"
    /\ LET file_name == FileName(obs_id, handler.dither,
                                 DatetimeTag(clock, handler.x))
       IN  /\ pool_of_files' = Append(pool_of_files, file_name)
           /\ fs' = [fs EXCEPT ![ScanDir] = @ \cup {file_name}]
    /\ obs_id' = NextObsId(obs_id)
    /\ handler' = IF handler.dither < Dithers
                  THEN [handler EXCEPT !.dither = @ + 1]
                  ELSE IF handler.x < Offsets - 1
                  THEN [handler EXCEPT !.x = @ + 1, !.dither = 1]
                  ELSE [handler EXCEPT !.pc = "respond"]
    /\ UNCHANGED <<in_name, derived, npc>>
    /\ UNCHANGED <<task_inputs, current_file, rootdir, clock, pc, loc, last,
                   issued, nreq>>
    /\ UNCHANGED <<uvars, gvars>>

\* in_file = pool_of_files.pop(0), the derived names, the task id, and the
\* JSON descriptor sent.
OrigRespond ==
    /\ handler.pc = "respond"
    /\ LET in_file == PopFront(pool_of_files).item
           out_file == OutName(in_file)
       IN  issued' = Append(issued,
                        [task_id |-> TaskId(clock),
                         in_file |-> in_file,
                         out_file |-> out_file,
                         log_file |-> OrigLogFile(out_file),
                         retrieve_path |-> input_files_dir])
    /\ pool_of_files' = PopFront(pool_of_files).rest
    /\ handler' = NoHandler
    /\ UNCHANGED <<obs_id, in_name, derived, npc>>
    /\ UNCHANGED <<task_inputs, current_file, rootdir, fs, clock, pc, loc,
                   last, nreq>>
    /\ UNCHANGED <<uvars, gvars>>

\* server.serve_forever() of BaseHTTPServer.HTTPServer: the next request is
\* accepted when the handler of the one before has returned.
NextOrig ==
    \/ OrigGetTask
    \/ OrigAppend
    \/ OrigRespond
    \/ Tick

SpecOrig == InitOrig /\ [][NextOrig]_vars

\* ============================================================ properties
Distinct(s) == \A i, j \in 1..Len(s) : i # j => s[i] # s[j]

IssuedIds == {issued[i].task_id : i \in 1..Len(issued)}

\* Worker t took a step of its handler.
Stepped(t) == pc'[t] # pc[t] \/ loc'[t] # loc[t]

\* C1: with one request at a time, the N get_task calls that start at a pool
\* of N distinct items return each of these items as in_file exactly once,
\* and the pool is empty when the last of them has answered.
C1_SeededPoolServedOnce ==
    \A i \in 1..Len(issued) :
        LET seeded == issued[i].before
            N == Len(seeded)
            calls == i..(i + N - 1)
        IN  (N >= 1 /\ Distinct(seeded) /\ i + N - 1 <= Len(issued)) =>
              /\ \A f \in Range(seeded) :
                   Cardinality({k \in calls : issued[k].in_file = f}) = 1
              /\ (Len(issued) = i + N - 1 /\ Quiet) => pool_of_files = <<>>

\* Two calls have been served from a pool seeded with two distinct items.
C1_Witness ==
    /\ Quiet
    /\ pool_of_files = <<>>
    /\ \E i \in 1..Len(issued) :
         /\ Len(issued[i].before) = 2
         /\ Distinct(issued[i].before)
         /\ Len(issued) = i + 1
         /\ {issued[i].in_file, issued[i + 1].in_file} = Range(issued[i].before)

\* C2: the two get_task requests of a race (both accepted while the pool held
\* exactly one item, neither having run a statement) never answer with the
\* same in_file.
C2_RacingCallsDiffer ==
    \A i, j \in 1..Len(issued) :
        (i < j /\ issued[i].race # 0 /\ issued[i].race = issued[j].race)
            => issued[i].in_file # issued[j].in_file

\* Worker t is between the emptiness check of get_task and its registry
\* insert: inside the statements that read and change the pool and registry.
InPoolSteps(t) ==
    pc[t] \in {"gnif_while", "gnif_glob", "gnif_append", "gt_pop", "gt_id",
               "gt_reg"}

\* C3: no two workers are inside the pool and registry statements at once.
C3_MutualExclusion ==
    \A t, u \in Threads : t # u => ~(InPoolSteps(t) /\ InPoolSteps(u))

\* The rename of worker t moved exactly the file f.
MovedExactly(f) ==
    /\ f \notin fs'[FromDir]
    /\ f \in fs'[ToDir]
    /\ \A d \in Dirs : fs'[d] \ {f} = fs[d] \ {f}

\* C4 as amended: end_task moves the file the registry held for its id; with
\* that file in ./input it either answers 200, and then exactly this file
\* has left ./input and is in ./processed, or os.rename raised OSError and
\* no file has changed.
C4_EndTaskMovesOrFails ==
    [][\A t \in Threads :
         /\ (pc[t] = "et_lookup" /\ pc'[t] = "et_rename")
                => loc'[t].task_file = task_inputs[loc[t].arg]
         /\ (pc[t] = "et_rename" /\ Stepped(t)
               /\ loc[t].task_file \in fs[FromDir])
                => \/ /\ last'[t].status = "200"
                      /\ MovedExactly(loc[t].task_file)
                   \/ /\ last'[t].status = "OSError"
                      /\ fs' = fs]_vars

\* An end_task has answered 200 and its file is in ./processed only.
C4_Witness ==
    \E t \in Threads :
        /\ last[t].op = "end_task"
        /\ last[t].status = "200"
        /\ \E f \in FitsFiles : f \in fs[ToDir] /\ f \notin fs[FromDir]

\* C4 as claimed: with the registered file in ./input, end_task moves it.
C4_EndTaskAlwaysMoves ==
    [][\A t \in Threads :
         (pc[t] = "et_rename" /\ Stepped(t)
            /\ loc[t].task_file \in fs[FromDir])
             => MovedExactly(loc[t].task_file)]_vars

\* C5: end_task with an id that no get_task has issued ends in the KeyError
\* of the registry lookup (the UnknownTask failure) and changes neither
\* directory, nor the pool, nor the registry.
C5_UnknownTaskChangesNothing ==
    [][\A t \in Threads :
         (pc[t] = "et_lookup" /\ Stepped(t) /\ loc[t].arg \notin IssuedIds)
             => /\ last'[t] = [op |-> "end_task", status |-> "KeyError",
                               at |-> "do_end_task"]
                /\ pc'[t] = "idle"
                /\ UNCHANGED <<fs, pool_of_files, task_inputs>>]_vars

\* An end_task failed on an unknown id while tasks were registered and
\* their files were in ./input.
C5_Witness ==
    \E t \in Threads :
        /\ last[t] = [op |-> "end_task", status |-> "KeyError",
                      at |-> "do_end_task"]
        /\ DOMAIN task_inputs # {}
        /\ fs[FromDir] \cap FitsFiles # {}

\* C6: every end_task that has ended was answered: 200, or an explicit 4xx
\* or 5xx response.
C6_EndTaskAlwaysAnswered ==
    \A t \in Threads :
        last[t].op = "end_task" => last[t].status \in {"200", "4xx", "5xx"}


\* Worker t is inside do_get_task.
InGetTask(t) ==
    pc[t] \in {"gt_check", "gnif_while", "gnif_glob", "gnif_append", "gt_pop",
               "gt_id", "gt_reg"}

\* C11: a get_task that finds the pool empty at its check calls
\* get_new_input_files once and one that finds an item calls it not at all;
\* no later statement of the call calls it again; and the call ends with the
\* task descriptor sent, or with the IndexError of the pop (PoolExhausted)
\* when its refill appended nothing.
C11_OneRefillWhenEmpty ==
    [][\A t \in Threads :
         /\ (pc[t] = "gt_check" /\ Stepped(t)) =>
                /\ loc[t].refills = 0
                /\ loc'[t].refills = (IF pool_of_files = <<>> THEN 1 ELSE 0)
                /\ pc'[t] = (IF pool_of_files = <<>> THEN "gnif_while"
                                                     ELSE "gt_pop")
         /\ (InGetTask(t) /\ pc[t] # "gt_check" /\ pc'[t] # "idle") =>
                loc'[t].refills = loc[t].refills
         /\ (InGetTask(t) /\ pc'[t] = "idle") =>
                \/ last'[t].status = "200" /\ issued' # issued
                \/ last'[t].status = "IndexError" /\ loc[t].appended = 0]_vars

\* C12: over any sequence of get_task and end_task calls, refills by
\* directory scan included, no file name is the in_file of two issued task
\* descriptors.
C12_ItemIssuedAtMostOnce ==
    \A i, j \in 1..Len(issued) :
        i < j => issued[i].in_file # issued[j].in_file

\* C13: at every moment, for every task descriptor d that get_task has
\* sent, the registry maps d.task_id to d.in_file.
C13_RegistryKeepsDescriptor ==
    \A i \in 1..Len(issued) :
        /\ issued[i].task_id \in DOMAIN task_inputs
        /\ task_inputs[issued[i].task_id] = issued[i].in_file

LastWithId(i) ==
    CHOOSE j \in i..Len(issued) :
        /\ issued[j].task_id = issued[i].task_id
        /\ \A k \in (j + 1)..Len(issued) : issued[k].task_id # issued[i].task_id

\* C16: two task descriptors carry the same task_id exactly when the clock
\* showed the same second at the two calls, and the registry holds, under
\* each id, the in_file of the latest call that was given this id.
C16_IdsCollideWithinASecond ==
    /\ \A i, j \in 1..Len(issued) :
          (issued[i].task_id = issued[j].task_id)
              <=> (issued[i].second = issued[j].second)
    /\ \A i \in 1..Len(issued) :
          task_inputs[issued[i].task_id] = issued[LastWithId(i)].in_file

\* Two calls in one second were given one id for two files, and a call in
\* the next second another id; the registry holds the later file of the two.
C16_Witness ==
    /\ Len(issued) = 3
    /\ issued[1].second = issued[2].second
    /\ issued[1].task_id = issued[2].task_id
    /\ issued[1].in_file # issued[2].in_file
    /\ issued[3].second # issued[2].second
    /\ issued[3].task_id # issued[2].task_id
    /\ task_inputs[issued[1].task_id] = issued[2].in_file

\* do_GET has answered a request for a file below the root.
AnsweredFile == gpc = "done" /\ response.handler \in {"send_file", "do_GET"}

\* C15: a GET for a path that resolves to no regular file under the root
\* (and is not /info, /get_task or /end_task) is answered with status 500
\* and the error page, and a GET for a regular file with status 200.
C15_MissingFileIs500 ==
    (AnsweredFile /\ getreq.rpath \notin {<<"info">>, <<"get_task">>,
                                          <<"end_task">>}) =>
        IF IsFile(path)
        THEN response.head.status = 200 /\ response.handler = "send_file"
        ELSE response.head.status = 500 /\ response.body = "Server Access Error"

\* C17: under every interleaving of get_task requests the pool holds an
\* item when a worker pops: no get_task ends in the IndexError of
\* pool_of_files.pop(0).
C17_PopNeverFindsEmptyPool ==
    \A t \in Threads :
        ~(last[t].op = "get_task" /\ last[t].status = "IndexError")

\* Worker t is inside do_end_task.
InEndTask(t) == pc[t] \in {"et_lookup", "et_rename"}

\* C18: when the rename of end_task fails (the file is not in ./input, or
\* the move is not permitted), the call has left the registry, the pool,
\* ./input and ./processed as they were: neither its lookup nor its failed
\* rename changes any of them.
C18_FailedRenameChangesNothing ==
    [][\A t \in Threads :
         /\ (pc[t] = "et_lookup" /\ Stepped(t)) =>
                UNCHANGED <<task_inputs, pool_of_files, fs>>
         /\ (pc[t] = "et_rename" /\ Stepped(t)
               /\ last'[t].status = "OSError") =>
                UNCHANGED <<task_inputs, pool_of_files, fs>>]_vars

\* An end_task for a registered file that is in ./input ended in OSError,
\* and the file is still there and still registered.
C18_Witness ==
    \E t \in Threads :
        /\ last[t] = [op |-> "end_task", status |-> "OSError",
                      at |-> "do_end_task"]
        /\ Cardinality(DOMAIN task_inputs) = 1
        /\ \A k \in DOMAIN task_inputs : task_inputs[k] \in fs[FromDir]
        /\ fs[ToDir] = {}

\* C19: no step removes a task id from the registry: the steps of end_task
\* leave the registry as it is, and the registration of get_task adds or
\* overwrites the entry of one id and keeps every other entry.
C19_RegistryNeverShrinks ==
    [][/\ DOMAIN task_inputs \subseteq DOMAIN task_inputs'
       /\ \A t \in Threads :
            /\ (InEndTask(t) /\ Stepped(t)) => task_inputs' = task_inputs
            /\ (pc[t] = "gt_reg" /\ Stepped(t)) =>
                   /\ DOMAIN task_inputs' =
                          DOMAIN task_inputs \cup {loc[t].new_task_id}
                   /\ \A k \in DOMAIN task_inputs \ {loc[t].new_task_id} :
                          task_inputs'[k] = task_inputs[k]]_vars

\* An end_task has moved its file to ./processed and the id it was given is
\* still in the registry, with that file.
C19_Witness ==
    \E t \in Threads :
        /\ last[t] = [op |-> "end_task", status |-> "200",
                      at |-> "do_end_task"]
        /\ \E k \in DOMAIN task_inputs :
             task_inputs[k] \in fs[ToDir] /\ task_inputs[k] \notin fs[FromDir]

\* C20: the pop of get_task takes the item at the front of the pool and
\* leaves the others in their order, and the refill appends at the back;
\* so a call that arrives at a pool of several items is given the first.
C20_FrontOfPoolIssued ==
    [][/\ \A t \in Threads :
            /\ (pc[t] = "gt_pop" /\ Stepped(t) /\ pool_of_files # <<>>) =>
                   /\ loc'[t].in_file = pool_of_files[1]
                   /\ pool_of_files' = Tail(pool_of_files)
            /\ (pc[t] = "gnif_append" /\ Stepped(t)) =>
                   /\ Len(pool_of_files') = Len(pool_of_files) + 1
                   /\ SubSeq(pool_of_files', 1, Len(pool_of_files))
                          = pool_of_files
       /\ \A i \in 1..Len(issued') :
            issued'[i].before # <<>> =>
                issued'[i].in_file = issued'[i].before[1]]_vars

\* Two calls were served from a pool of two items, in the order of the pool.
C20_Witness ==
    \E i \in 1..Len(issued) :
        /\ Len(issued[i].before) = 2
        /\ issued[i].before[1] # issued[i].before[2]
        /\ Len(issued) > i
        /\ issued[i].in_file = issued[i].before[1]
        /\ issued[i + 1].in_file = issued[i].before[2]
        /\ issued[i + 1].before = <<issued[i].before[2]>>

\* s with every occurrence of the text old replaced by new, read literally.
RECURSIVE Replace(_, _, _)
Replace(old, new, s) ==
    IF Len(s) < Len(old) THEN s
    ELSE IF SubSeq(s, 1, Len(old)) = old
    THEN new \o Replace(old, new, SubSeq(s, Len(old) + 1, Len(s)))
    ELSE <<Head(s)>> \o Replace(old, new, Tail(s))

\* s, which ends in the extension old, with this extension changed to new.
WithExtension(old, new, s) == SubSeq(s, 1, Len(s) - Len(old)) \o new

\* The names the task descriptor is to carry for in_file s.
ExpectedOut(s) == WithExtension(dot_fits, dot_json, Replace(LE1_VIS, QLA_LE1_VIS, s))
ExpectedLog(s) ==
    WithExtension(dot_json, dot_log,
                  Replace(LE1_VIS_dash, LE1_VIS_LOG, ExpectedOut(s)))

\* C21: for every in_file that contains the tag LE1_VIS and ends in .fits,
\* out_file is in_file with the tag replaced by QLA_LE1-VIS and only the
\* final .fits replaced by .json, log_file is out_file with LE1-VIS replaced
\* by LE1-VIS-LOG and only the .json replaced by .log, and both scripts
\* compute these names.
C21_DerivedNames ==
    (npc = {"new", "orig"} /\ Contains(LE1_VIS, in_name)) =>
        /\ derived.new.out_file = ExpectedOut(in_name)
        /\ derived.new.log_file = ExpectedLog(in_name)
        /\ derived.orig = derived.new

InRefill(t) == pc[t] \in {"gnif_while", "gnif_glob", "gnif_append"}

Responded(t) == Idle(t) /\ last[t].op = "get_task" /\ last[t].status = "200"

C26_RefillAdvancesObsIdOnce ==
    [][(handler.pc = "refill" /\ handler'.pc = "respond") =>
          /\ Len(pool_of_files') = Offsets * Dithers
          /\ Cardinality(fs'[ScanDir]) =
                 handler.files_before + Offsets * Dithers
          /\ Range(pool_of_files') \subseteq fs'[ScanDir]
          /\ obs_id' = handler.obs_before + 1]_vars

IssuedFiles == [i \in 1..Len(issued) |-> issued[i].in_file]

\* C27: the original server has one handler at a time (its state is the one
\* record handler), and no two of the descriptors it has sent carry the
\* same in_file.
C27_OrigNeverRepeatsInFile ==
    /\ handler.pc \in {"idle", "refill", "respond"}
    /\ Distinct(IssuedFiles)

\* The pool has been refilled twice and items of the second refill have
\* been sent.
C27_Witness ==
    /\ obs_id = FirstObsId + 2 * Offsets * Dithers
    /\ Len(issued) = Offsets * Dithers + 2
    /\ handler.pc = "idle"

\* C29: a file issued by get_task stays in the input location until an
\* end_task carrying that task's id is processed.  Stated for the first
\* end_task of a run (every request before it was a get_task that sent its
\* descriptor, so every issued task is still open): when it moves a file,
\* every descriptor issued for that file carries the id it was called with.
C29_OnlyOwnEndTaskMovesFile ==
    [][\A t \in Threads :
         (pc[t] = "et_rename" /\ fs' # fs /\ Len(issued) = nreq - 1) =>
             \A i \in 1..Len(issued) :
                 issued[i].in_file = loc[t].task_file =>
                     issued[i].task_id = loc[t].arg]_vars

\* C30: a get_task that answers after end_task has moved a file to the
\* processed location does not answer with that file as in_file (nothing but
\* end_task moves or creates files).
C30_MovedFileNotIssuedAgain ==
    \A t \in Threads :
        pc[t] = "gt_reg" => loc[t].in_file \notin fs[ToDir]

Finished == result.kind # "none"

\* The request is the body of the upload contract: opening boundary line,
\* Content-Disposition line of the field "file" with a file name, directly
\* followed by the blank separator,
\* content whose lines hold no boundary token, CRLF, closing boundary line,
\* under a Content-Type that declares the boundary and a Content-Length
\* equal to the length of the body.
WellFormed(r) ==
    /\ r.plisttext # <<>>
    /\ r.content_length = [kind |-> "number", off |-> 0]
    /\ r.sent.first = <<Dashes>> \o ClientBoundary \o <<CR, LF>>
    /\ r.sent.second = <<CDisp, NameFile, "x", Quote, CR, LF>>
    /\ r.sent.header = <<>>
    /\ ~Contains(ClientBoundary, r.sent.content)
    /\ r.sent.closing = ClosingLine

\* The destination could not be opened.
OpenFailed ==
    result \in {Returned(FALSE,
                   "Can't create file to write, do you have permission to write?"),
                Raised("KeyError")}

\* C7: for every well-formed body with Content-Length equal to its length,
\* once the parser has finished (and the destination could be opened) it has
\* reported success and the destination file holds exactly the content C.
C7_WellFormedUploadStored ==
    (WellFormed(request) /\ Finished /\ ~OpenFailed) =>
        /\ result.ok
        /\ fn = DestPath
        /\ disk[fn] = request.sent.content

MalformedBody ==
    {Returned(FALSE, "Content NOT begin with boundary"),
     Returned(FALSE, "Can't find out file name...")}

\* C8: when the first line read does not contain the boundary, or the second
\* line read does not match name="file"; filename="<name>", the parser
\* returns a MalformedBody failure at that step, with the destination never
\* opened and the disk as the request found it.
C8_MalformedBeforeOpen ==
    [][((upc = "first" /\ ~Contains(boundary, ReadLine(rfile)))
          \/ (upc = "disposition" /\ FindFileName(ReadLine(rfile)) = <<>>))
        => /\ result' \in MalformedBody
           /\ upc' = "returned"
           /\ out = None /\ out' = None
           /\ disk \in InitialDisks /\ disk' = disk]_vars

\* A request whose second line names another field has been refused and the
\* file that was at the destination before is as it was.
C8_Witness ==
    /\ result = Returned(FALSE, "Can't find out file name...")
    /\ request.sent.second = <<CDisp, NameOther, "x", Quote, CR, LF>>
    /\ disk = DictSet(<<>>, DestPath, <<"old">>)
    /\ out = None

TruncatedBody == Returned(FALSE, "Unexpect Ends of data.")

\* C9: when the body loop finds the remaining byte count at zero or below,
\* no line with the boundary having been read in the loop, the parser returns
\* the TruncatedBody failure; and success is only ever reported for a
\* boundary line that was read while the count was still above zero.
C9_ExhaustedIsTruncated ==
    [][/\ (upc = "loop" /\ remainbytes <= 0) =>
              (result' = TruncatedBody /\ upc' = "returned")
       /\ (~result.ok /\ result'.ok) =>
              (remainbytes > 0 /\ Contains(boundary, line'))]_vars

\* The client framed the body in full but declared too few bytes: the loop
\* stopped before the closing boundary line and the upload failed.
C9_Witness ==
    /\ result = TruncatedBody
    /\ remainbytes <= 0
    /\ request.sent.closing = ClosingLine
    /\ Contains(boundary, rfile)

\* C10: no POST request makes the parser raise: every call returns a
\* (flag, message) pair, which do_POST renders into a 200 page whose text is
\* 'Success:' or 'Failed:'.
C10_EveryPostGetsAPage ==
    /\ result.kind # "raise"
    /\ upc = "done" =>
          /\ page.code = 200
          /\ page.strong = (IF result.ok THEN "Success:" ELSE "Failed:")

\* The bytes of the body behind the three lines read before the destination
\* is opened.
BodyLines == AfterLine(AfterLine(AfterLine(request.body)))

\* p without its trailing LF and without a CR directly before that LF.
WithoutEol(p) ==
    IF Len(p) >= 2 /\ p[Len(p) - 1] = CR /\ p[Len(p)] = LF
    THEN SubSeq(p, 1, Len(p) - 2)
    ELSE IF Len(p) >= 1 /\ p[Len(p)] = LF
    THEN SubSeq(p, 1, Len(p) - 1)
    ELSE p

\* C22: during the body loop exactly one line, the pending line, is read
\* but not written: the bytes written, then the pending line, then the
\* unread bytes are the body lines in order.  A turn whose new line holds no
\* boundary writes the pending line verbatim and makes the new line the
\* pending one; the turn whose new line holds the boundary writes the pending
\* line without its trailing LF and without a CR directly before it, and
\* closes the destination.
C22_OnePendingLine ==
    /\ [](upc = "loop" => /\ out = "open"
                          /\ disk[fn] \o preline \o rfile = BodyLines)
    /\ [][(upc = "loop" /\ LoopRuns(remainbytes)) =>
             IF Contains(boundary, ReadLine(rfile))
             THEN /\ disk'[fn] = disk[fn] \o WithoutEol(preline)
                  /\ out' = "closed"
                  /\ result'.ok
             ELSE /\ disk'[fn] = disk[fn] \o preline
                  /\ preline' = ReadLine(rfile)
                  /\ out' = "open"]_vars

\* An upload of two content lines (an empty line, then x) has succeeded: the
\* first line was written verbatim and the second without its CRLF.
C22_Witness ==
    /\ result.ok
    /\ out = "closed"
    /\ request.sent.header = <<>>
    /\ request.sent.content = <<LF, "x">>
    /\ disk[fn] = <<LF, "x">>

\* The part carries a secondary header line and is otherwise the body of
\* the upload contract.
WithSecondaryHeader(r) ==
    /\ r.plisttext # <<>>
    /\ r.content_length = [kind |-> "number", off |-> 0]
    /\ r.sent.first = <<Dashes>> \o ClientBoundary \o <<CR, LF>>
    /\ r.sent.second = <<CDisp, NameFile, "x", Quote, CR, LF>>
    /\ r.sent.header # <<>>
    /\ ~Contains(ClientBoundary, r.sent.content)
    /\ r.sent.closing = ClosingLine

\* C23: for a file part whose Content-Disposition line is followed by a
\* secondary header line and then the blank separator line, a successful
\* upload leaves exactly the content bytes in the destination file.
C23_SecondaryHeaderNotStored ==
    (WithSecondaryHeader(request) /\ result.ok) =>
        disk[fn] = request.sent.content

\* C28: for every body stream and every declared Content-Length, a stream
\* that ends before Content-Length bytes were delivered included, the parser
\* eventually finishes: it returns a result (or raises).
C28_ParserEventuallyFinishes == <>Finished

\* The bytes the parser has taken from the request stream so far.
Consumed == Len(request.body) - Len(rfile)

\* C32: for every body and every declared length, the parser has never
\* taken more bytes from the request stream than Content-Length declares.
C32_ReadsWithinContentLength ==
    request.content_length.kind = "number" =>
        Consumed <= DeclaredLength(request)

\* C33: when the parser has failed with 'Unexpect Ends of data', the
\* destination file exists and holds the body lines read before the pending
\* line and nothing else (what a file of that name held before is gone), and
\* the parser has not closed it; the failing step itself writes nothing.
C33_TruncatedUploadLeavesPartialFile ==
    /\ [](result = TruncatedBody =>
             /\ fn \in DOMAIN disk
             /\ out = "open"
             /\ disk[fn] \o preline \o rfile = BodyLines)
    /\ [][(result # TruncatedBody /\ result' = TruncatedBody) =>
             /\ disk' = disk
             /\ out' = out]_vars

\* An upload has failed with 'Unexpect Ends of data' after a body line was
\* written, with a further line pending, and the file is still open.
C33_Witness ==
    /\ result = TruncatedBody
    /\ out = "open"
    /\ disk[fn] # <<>>
    /\ preline # <<>>

\* The boundary token occurs somewhere in line l.
HoldsBoundary(l) ==
    \E i \in 1..Len(l) : \E j \in i..Len(l) : SubSeq(l, i, j) = boundary

\* C34: the turn of the body loop whose line holds the boundary token
\* anywhere ends the upload with success: the pending line is written
\* without its line end, the destination is closed, and nothing is written
\* afterwards, so the file is the part of the body before that line and the
\* bytes behind it stay unread.
C34_TokenInContentEndsUpload ==
    /\ [][/\ (upc = "loop" /\ LoopRuns(remainbytes)
                /\ HoldsBoundary(ReadLine(rfile))) =>
               /\ result' = Returned(TRUE, "File upload success!")
               /\ out' = "closed"
               /\ disk'[fn] = disk[fn] \o WithoutEol(preline)
               /\ rfile' = AfterLine(rfile)
          /\ out = "closed" => (disk' = disk /\ rfile' = rfile)]_vars
    /\ [](result.ok =>
            /\ HoldsBoundary(line)
            /\ \E eol \in {<<LF>>, <<CR, LF>>} :
                 disk[fn] \o eol \o line \o rfile = BodyLines)

\* The second content line of the uploaded file holds the boundary token:
\* the upload has ended there with success, the file holds the line before
\* it (an empty line, without its line end) and the closing boundary line
\* is still unread.
C34_Witness ==
    /\ result.ok
    /\ request.sent.header = <<>>
    /\ request.sent.content = <<LF, Tok>>
    /\ disk[fn] = <<>>
    /\ rfile = ClosingLine

====
